---- MODULE Spec2Model ----
(***************************************************************************)
(* Model of the edit session kept by the App component (src/App.tsx):      *)
(* the version history and its cursor, the retouch hotspot, the crop       *)
(* selection, the in-flight image operations and chat exchanges, and the   *)
(* handlers that change them.                                              *)
(*                                                                         *)
(* Eight specifications are given. Spec is the application as it is driven *)
(* through its rendered controls: every handler runs only when the control *)
(* it is bound to is rendered and not disabled.  SpecHandlers calls the     *)
(* history and image-operation handlers directly, in any state and with    *)
(* any argument, as the callbacks App hands to its child components; it    *)
(* reaches the branches of the handlers that the controls never let run.   *)
(* SpecCrop does the same for handleCrop, on image elements of several     *)
(* sizes, and SpecClick clicks once on image elements of every small size, *)
(* to cover the arithmetic of handleImageClick.  SpecAnswered is Spec with  *)
(* a collaborator that answers; SpecRace and SpecRetouch are small parts   *)
(* of the application for an upload during a request and for the hotspot   *)
(* of a retouch; SpecUrls runs the two effects that create and revoke the  *)
(* object URLs of the current and the original image, which the other      *)
(* specifications leave out.                                               *)
(*                                                                         *)
(* An optional value (T | null, T | undefined) is the empty tuple or a     *)
(* one-element tuple.  A File is identified by a number: every upload and  *)
(* every generated or cropped image is a new File object.                  *)
(***************************************************************************)
EXTENDS Integers, Sequences, FiniteSets, TLC

\* ------------------------------------------------------------------ bounds

\* Number of File objects (uploads and results together) a behaviour of Spec
\* creates, and a behaviour of SpecHandlers.
MaxFiles == 4
MaxFilesDirect == 2
\* Number of image operations in flight at once in SpecHandlers (Spec sets
\* no limit).
MaxPending == 2
\* Length of the chat transcript beyond which the user sends no message.
MaxTranscript == 2
\* How far below -1 direct calls of handleRedo may push the cursor.
MaxUnderflow == 0
\* Largest natural and rendered side, in pixels, of the small image elements
\* SpecClick clicks on at every offset.
MaxSide == 4

\* ------------------------------------------------------------- value sets

None == <<>>
Some(v) == <<v>>

Tabs == {"retouch", "freestyle", "background", "adjust", "filters", "crop", "chat"}

\* The operations that await the generative collaborator.
Kinds == {"retouch", "filter", "adjustment", "background", "freestyle"}

\* Instruction texts, as sequences of characters.
Prompts == { <<>>, <<" ">>, <<"a">> }

\* Chat messages the user may type.
Messages == { <<"h">> }

\* Strings handed to dataURLtoFile: a PNG data URL, the data URL of a canvas
\* with no pixels, and a string with no comma.
PngDataURL == "data:image/png;base64,AA"
EmptyCanvasDataURL == "data:,"
DataURLs == { PngDataURL, EmptyCanvasDataURL, "AA" }

\* What the collaborator call can end in: a rejected promise, or a string.
Rejected == "rejected"
Outcomes == { Rejected } \cup DataURLs

\* Rendered and natural size of the image element, and pointer offsets
\* inside it.
Geometries == { [nw |-> 100, nh |-> 200, rw |-> 50, rh |-> 100] }
Pointers == { [x |-> 25, y |-> 50] }

\* One axis of an image element: its natural and its rendered length.  The
\* small sides are all of them up to MaxSide, a rendered length of 0
\* included (img.width is the laid-out width rounded to an integer) and
\* natural lengths below the rendered one included.  The large sides are the
\* axes of Geometries and one on which the product with the scale falls
\* half-way between two integers.
Sides == { [natural |-> n, rendered |-> r] : n \in 1..MaxSide, r \in 0..MaxSide }
LargeSides == { [natural |-> 100, rendered |-> 50],
                [natural |-> 200, rendered |-> 100],
                [natural |-> 49, rendered |-> 22] }
AllSides == Sides \cup LargeSides

\* Image elements SpecClick clicks on: every pair of sides.
Element(a, b) ==
    [nw |-> a.natural, nh |-> b.natural, rw |-> a.rendered, rh |-> b.rendered]
ClickGeometries == { Element(a, b) : a \in AllSides, b \in AllSides }

\* Pointer offsets along a side of rendered length r: every whole pixel of a
\* small side, the far edge included (the bounding rectangle may be up to
\* half a pixel longer than img.width); the ends and the middle of a large
\* one.
Offsets(r) == IF r <= MaxSide THEN 0..r ELSE { 0, r \div 2, r - 1, r }
ClickPointers(g) ==
    { [x |-> px, y |-> py] : px \in Offsets(g.rw), py \in Offsets(g.rh) }

\* Completed crop rectangles in rendered pixels.
CropRegions == { [x |-> 0, y |-> 0, width |-> 50, height |-> 100],
                 [x |-> 10, y |-> 10, width |-> 0, height |-> 20] }

\* window.devicePixelRatio, in hundredths: 1, 1.5 and 2, and 0 for a window
\* that reports none.
PixelRatios == { 0, 100, 150, 200 }

\* Image elements a crop is taken from, and the rectangles a drag can
\* complete on the element image: the whole element, a part of it, and the
\* empty rectangles a click or a straight drag leaves.
CropGeometries == Geometries \cup { [nw |-> 29, nh |-> 30, rw |-> 7, rh |-> 10],
                                    [nw |-> 6, nh |-> 6, rw |-> 6, rh |-> 6] }
CropRegionsOf(image) ==
    { [x |-> 0, y |-> 0, width |-> image.rw, height |-> image.rh],
      [x |-> 1, y |-> 2, width |-> image.rw - 2, height |-> image.rh - 4],
      [x |-> 1, y |-> 2, width |-> 0, height |-> image.rh - 4],
      [x |-> 1, y |-> 2, width |-> image.rw - 2, height |-> 0] }

\* The two images that are given an object URL: history[historyIndex] and
\* history[0].
Slots == { "current", "original" }

VARIABLES
    history,        \* File[]: the versions
    historyIndex,   \* the cursor; -1 before the first upload
    prompt,         \* text of the retouch instruction
    isLoading,      \* an image operation is in flight
    error,          \* last error message, or None
    editHotspot,    \* hotspot in natural pixels, or None
    displayHotspot, \* hotspot in rendered pixels, or None
    activeTab,
    crop,           \* the crop being dragged, or None
    completedCrop,  \* the completed crop, or None
    chatHistory,    \* the chat transcript
    isChatLoading,  \* a chat exchange is in flight
    pending,        \* image operations suspended at their await
    chatPending,    \* chat exchanges suspended at their await
    nextFile,       \* identity of the next File object
    currentImageUrl,  \* object URL of the current image in the rendered frame
    originalImageUrl, \* object URL of the original image in the rendered frame
    objectURLs,     \* the object URLs created so far, in order of creation
    effects,        \* the last run of each object-URL effect
    mounted         \* the App component is mounted

vars == << history, historyIndex, prompt, isLoading, error, editHotspot,
           displayHotspot, activeTab, crop, completedCrop, chatHistory,
           isChatLoading, pending, chatPending, nextFile, currentImageUrl,
           originalImageUrl, objectURLs, effects, mounted >>

histVars == << history, historyIndex >>
hotspotVars == << editHotspot, displayHotspot >>
cropVars == << crop, completedCrop >>
chatVars == << chatHistory, isChatLoading, chatPending >>
sessionVars == << histVars, prompt, isLoading, error, hotspotVars, activeTab,
                  cropVars, chatVars, pending, nextFile >>
urlVars == << currentImageUrl, originalImageUrl, objectURLs, effects, mounted >>

\* ---------------------------------------------------------------- helpers

Min(a, b) == IF a < b THEN a ELSE b
Max(a, b) == IF a > b THEN a ELSE b

\* Array.prototype.slice(start, end): negative indices count from the end.
SliceIndex(i, len) == IF i < 0 THEN Max(len + i, 0) ELSE Min(i, len)
Slice(arr, start, end) ==
    LET s == SliceIndex(start, Len(arr))
        e == SliceIndex(end, Len(arr))
    IN  IF s < e THEN SubSeq(arr, s + 1, e) ELSE << >>

\* arr[i] ?? null, with JavaScript's 0-based index.
At(arr, i) == IF i >= 0 /\ i < Len(arr) THEN Some(arr[i + 1]) ELSE None

\* String.prototype.trim on a sequence of characters.
RECURSIVE TrimLeft(_)
TrimLeft(s) == IF s # << >> /\ Head(s) = " " THEN TrimLeft(Tail(s)) ELSE s
RECURSIVE TrimRight(_)
TrimRight(s) ==
    IF s # << >> /\ s[Len(s)] = " " THEN TrimRight(SubSeq(s, 1, Len(s) - 1)) ELSE s
Trim(s) == TrimRight(TrimLeft(s))

\* Math.round of the non-negative rational n / d.
Round(n, d) == (2 * n + d) \div (2 * d)

\* ---- Number arithmetic of a click: IEEE-754 doubles

\* Infinity and NaN.  Every finite coordinate of a click is a non-negative
\* integer; the two values that are not finite are stood for by negative
\* numbers.
Infinity == -1
NaN == -2

\* Bits of the fraction of a double.
FractionBits == 52

\* floor(log2(a / b)) for a, b > 0: the binade of the quotient.
RECURSIVE Binade(_, _)
Binade(a, b) ==
    IF a >= 2 * b THEN Binade(a, 2 * b) + 1
    ELSE IF a < b THEN Binade(2 * a, b) - 1
    ELSE 0

RECURSIVE Pow2(_)
Pow2(k) == IF k = 0 THEN 1 ELSE 2 * Pow2(k - 1)

\* (r * 2^k) mod b.
RECURSIVE ShiftMod(_, _, _)
ShiftMod(r, k, b) == IF k = 0 THEN r % b ELSE ShiftMod((2 * r) % b, k - 1, b)

\* The quotient a / b of two whole numbers is rounded to the nearest double
\* q = M * 2^-k, k = FractionBits - Binade(a, b).  QuotientError is the
\* signed remainder e = a * 2^k - M * b, so that q = a/b - e / (b * 2^k):
\* positive when the quotient was rounded down, 0 when it is exact.  (A tie
\* in this rounding needs a >= 2^53.)
QuotientError(a, b) ==
    LET r == ShiftMod(a, FractionBits - Binade(a, b), b)
    IN  IF 2 * r > b THEN r - b ELSE r

\* Math.round(client * (natural / rendered)) for whole numbers client >= 0,
\* natural > 0, rendered > 0, both operations rounded to double.  Unless
\* client * natural / rendered lies half-way between the integers N and N + 1
\* the rounding errors, below 2^-40, do not change the nearest integer.  At
\* N + 1/2 Math.round gives N + 1 if the product is N + 1/2 or more and N
\* otherwise.  The exact product is N + 1/2 - client * e / (rendered * 2^k);
\* it is rounded up to the double N + 1/2 when it lies no more than half a
\* spacing below it, the spacing below N + 1/2 being 2^(j - 52) with
\* j = floor(log2(N + 1/2)), and half of that for N + 1/2 = 1/2.
RoundedProduct(client, natural, rendered) ==
    LET n == client * natural
        twice == (2 * n) \div rendered
        N == (twice - 1) \div 2
        e == QuotientError(natural, rendered)
        j == Binade(twice, 2)
        m == Binade(natural, rendered)
    IN  IF (2 * n) % rendered # 0 \/ twice % 2 = 0 THEN Round(n, rendered)
        ELSE IF e <= 0 THEN N + 1
        ELSE IF 2 * client * e * (IF N = 0 THEN 2 ELSE 1) <= rendered * Pow2(j - m)
             THEN N + 1
        ELSE N

\* Variant: the pointer offset is stored as it is, without the scale.
naturalCoordinate_unscaled(client, natural, rendered) == client

\* scale = natural / rendered; Math.round(client * scale).  A rendered
\* length of 0 makes the scale Infinity (NaN for 0 / 0), and the product
\* Infinity, or NaN for client = 0; Math.round returns them as they are.
naturalCoordinate(client, natural, rendered) ==
    IF rendered = 0
    THEN IF natural = 0 \/ client = 0 THEN NaN ELSE Infinity
    ELSE RoundedProduct(client, natural, rendered)

\* The non-negative rational n / d in lowest terms, d > 0.
RECURSIVE GCD(_, _)
GCD(a, b) == IF b = 0 THEN a ELSE GCD(b, a % b)
Rat(n, d) == [ num |-> n \div GCD(n, d), den |-> d \div GCD(n, d) ]

currentImage == At(history, historyIndex)
originalImage == At(history, 0)

canUndo == historyIndex > 0
canRedo == historyIndex < Len(history) - 1

\* The cursor handleUndo and handleRedo leave, from cursor i in a history of
\* length len.
\* Variant: canUndo tested as historyIndex >= 0.
undoIndex_fromZero(i) == IF i >= 0 THEN i - 1 ELSE i
undoIndex(i) == IF i > 0 THEN i - 1 ELSE i
redoIndex(i, len) == IF i < len - 1 THEN i - 1 ELSE i

\* ------------------------------------------------------------------- Init

Init ==
    /\ history = << >>
    /\ historyIndex = -1
    /\ prompt = << >>
    /\ isLoading = FALSE
    /\ error = None
    /\ editHotspot = None
    /\ displayHotspot = None
    /\ activeTab = "retouch"
    /\ crop = None
    /\ completedCrop = None
    /\ chatHistory = << >>
    /\ isChatLoading = FALSE
    /\ pending = {}
    /\ chatPending = {}
    /\ nextFile = 1
    /\ currentImageUrl = None
    /\ originalImageUrl = None
    /\ objectURLs = << >>
    /\ effects = [ slot \in Slots |->
                      [ dep |-> None, url |-> None, queued |-> FALSE ] ]
    /\ mounted = TRUE

\* --------------------------------------------------------------- handlers

\* Variant: the new File is pushed onto the whole captured history, without
\* the slice that cuts the undone versions.
addImageToHistory_noCut(capHistory, capIndex, newImageFile) ==
    LET newHistory == Append(capHistory, newImageFile)
    IN  /\ history' = newHistory
        /\ historyIndex' = Len(newHistory) - 1
        /\ crop' = None
        /\ completedCrop' = None

\* Variant: the slice starts at the cursor, so only the current version is
\* kept in front of the new File.
addImageToHistory_fromCursor(capHistory, capIndex, newImageFile) ==
    LET newHistory ==
            Append(Slice(capHistory, capIndex, capIndex + 1), newImageFile)
    IN  /\ history' = newHistory
        /\ historyIndex' = Len(newHistory) - 1
        /\ crop' = None
        /\ completedCrop' = None

\* The state updates of addImageToHistory, called with the history and cursor
\* its closure captured.
addImageToHistory(capHistory, capIndex, newImageFile) ==
    LET newHistory == Append(Slice(capHistory, 0, capIndex + 1), newImageFile)
    IN  /\ history' = newHistory
        /\ historyIndex' = Len(newHistory) - 1
        /\ crop' = None
        /\ completedCrop' = None

\* Variant: the chat transcript is carried over to the new image.
handleImageUpload_keepsChat ==
    /\ error' = None
    /\ history' = << nextFile >>
    /\ historyIndex' = 0
    /\ editHotspot' = None
    /\ displayHotspot' = None
    /\ activeTab' = "retouch"
    /\ crop' = None
    /\ completedCrop' = None
    /\ nextFile' = nextFile + 1
    /\ UNCHANGED << prompt, isLoading, chatVars, pending, urlVars >>

handleImageUpload ==
    /\ error' = None
    /\ history' = << nextFile >>
    /\ historyIndex' = 0
    /\ editHotspot' = None
    /\ displayHotspot' = None
    /\ activeTab' = "retouch"
    /\ crop' = None
    /\ completedCrop' = None
    /\ chatHistory' = << >>
    /\ nextFile' = nextFile + 1
    /\ UNCHANGED << prompt, isLoading, isChatLoading, pending, chatPending,
                    urlVars >>

handleUndo ==
    /\ historyIndex' = undoIndex(historyIndex)
    /\ UNCHANGED << history, prompt, isLoading, error, hotspotVars, activeTab,
                    cropVars, chatVars, pending, nextFile, urlVars >>

handleRedo ==
    /\ historyIndex' = redoIndex(historyIndex, Len(history))
    /\ UNCHANGED << history, prompt, isLoading, error, hotspotVars, activeTab,
                    cropVars, chatVars, pending, nextFile, urlVars >>

\* Requests in flight are told apart by a number; it has no counterpart in
\* the program, where each is a separate suspended call.
freshId(inFlight) ==
    CHOOSE i \in 1..(Cardinality(inFlight) + 1) : \A r \in inFlight : r.id # i

\* dataURLtoFile returns a File unless the string has no comma or no
\* ":<mime>;" before it; then it throws.
dataURLtoFileThrows(dataurl) == dataurl # PngDataURL

\* The part of an image handler before its await: the loading flag is set,
\* the error cleared, and the collaborator is called with the current image,
\* the instruction and (retouch only) the hotspot.  The continuation keeps the
\* history and cursor that addImageToHistory closed over.
dispatch(kind, instruction, hotspot) ==
    /\ isLoading' = TRUE
    /\ error' = None
    /\ pending' = pending \cup
          { [ id |-> freshId(pending), kind |-> kind, image |-> currentImage[1],
              instruction |-> instruction, hotspot |-> hotspot,
              history |-> history, historyIndex |-> historyIndex ] }
    /\ UNCHANGED << histVars, prompt, hotspotVars, activeTab, cropVars,
                    chatVars, nextFile, urlVars >>

\* An early return of a handler after setError(message).
reject(kind, message) ==
    /\ error' = Some(<< kind, message >>)
    /\ UNCHANGED << histVars, prompt, isLoading, hotspotVars, activeTab,
                    cropVars, chatVars, pending, nextFile, urlVars >>

\* Variant: the instruction is tested without trim().
handleGenerate_noTrim ==
    IF currentImage = None THEN reject("retouch", "no image")
    ELSE IF prompt = << >> THEN reject("retouch", "no instruction")
    ELSE IF editHotspot = None THEN reject("retouch", "no hotspot")
    ELSE dispatch("retouch", prompt, editHotspot)

\* Variant: the collaborator is handed the hotspot in rendered pixels.
handleGenerate_displayHotspot ==
    IF currentImage = None THEN reject("retouch", "no image")
    ELSE IF Trim(prompt) = << >> THEN reject("retouch", "no instruction")
    ELSE IF editHotspot = None THEN reject("retouch", "no hotspot")
    ELSE dispatch("retouch", prompt, displayHotspot)

handleGenerate ==
    IF currentImage = None THEN reject("retouch", "no image")
    ELSE IF Trim(prompt) = << >> THEN reject("retouch", "no instruction")
    ELSE IF editHotspot = None THEN reject("retouch", "no hotspot")
    ELSE dispatch("retouch", prompt, editHotspot)

applyInstruction(kind, instruction) ==
    IF currentImage = None THEN reject(kind, "no image")
    ELSE dispatch(kind, instruction, None)

handleApplyFilter(filterPrompt) == applyInstruction("filter", filterPrompt)

handleApplyAdjustment(adjustmentPrompt) ==
    applyInstruction("adjustment", adjustmentPrompt)

handleApplyBackground(backgroundPrompt) ==
    applyInstruction("background", backgroundPrompt)

handleApplyFreestyle(freestylePrompt) ==
    applyInstruction("freestyle", freestylePrompt)

\* The try block runs to its end: the promise resolved and its string decodes.
resolves(outcome) == outcome # Rejected /\ ~dataURLtoFileThrows(outcome)

\* The try block of an image handler after its await, run to its end for the
\* request r: the result becomes a File and is appended; a retouch also
\* resets the hotspot and the instruction.
succeed(r) ==
    /\ addImageToHistory(r.history, r.historyIndex, nextFile)
    /\ nextFile' = nextFile + 1
    /\ IF r.kind = "retouch"
         THEN /\ editHotspot' = None
              /\ displayHotspot' = None
              /\ prompt' = << >>
         ELSE UNCHANGED << hotspotVars, prompt >>
    /\ UNCHANGED error

\* Variant: the catch block only logs the failure.
fail_silent(r) ==
    /\ UNCHANGED << error, histVars, cropVars, hotspotVars, prompt, nextFile >>

\* The catch block of an image handler.
fail(r) ==
    /\ error' = Some(<< r.kind, "failed" >>)
    /\ UNCHANGED << histVars, cropVars, hotspotVars, prompt, nextFile >>

\* Variant: the loading flag is cleared at the end of the try block and not
\* in a finally block.
resume_noFinally(r, outcome) ==
    /\ r \in pending
    /\ pending' = pending \ { r }
    /\ IF resolves(outcome)
         THEN succeed(r) /\ isLoading' = FALSE
         ELSE fail(r) /\ UNCHANGED isLoading
    /\ UNCHANGED << activeTab, chatVars, urlVars >>

\* The part of an image handler after its await, for the request r and the
\* collaborator's outcome: try or catch, then finally.
resume(r, outcome) ==
    /\ r \in pending
    /\ pending' = pending \ { r }
    /\ IF resolves(outcome) THEN succeed(r) ELSE fail(r)
    /\ isLoading' = FALSE
    /\ UNCHANGED << activeTab, chatVars, urlVars >>

\* The part of handleSendMessage before its await.
handleSendMessage(message) ==
    LET updatedChatHistory ==
            Append(chatHistory, [role |-> "user", text |-> message])
    IN  /\ isChatLoading' = TRUE
        /\ error' = None
        /\ chatHistory' = updatedChatHistory
        /\ chatPending' = chatPending \cup
              { [ id |-> freshId(chatPending), message |-> message,
                  updatedChatHistory |-> updatedChatHistory ] }
        /\ UNCHANGED << histVars, prompt, isLoading, hotspotVars, activeTab,
                        cropVars, pending, nextFile, urlVars >>

\* Variant: a failed exchange takes the user's message out of the transcript.
resumeChat_dropsMessage(c, replied) ==
    /\ c \in chatPending
    /\ chatPending' = chatPending \ { c }
    /\ isChatLoading' = FALSE
    /\ IF replied
         THEN /\ chatHistory' = Append(c.updatedChatHistory,
                                       [role |-> "model", text |-> << "r" >>])
              /\ UNCHANGED error
         ELSE /\ error' = Some(<< "chat", "failed" >>)
              /\ chatHistory' = SubSeq(c.updatedChatHistory, 1,
                                       Len(c.updatedChatHistory) - 1)
    /\ UNCHANGED << histVars, prompt, isLoading, hotspotVars, activeTab,
                    cropVars, pending, nextFile, urlVars >>

\* The part of handleSendMessage after its await; replied is whether
\* generateChatResponse resolved.
resumeChat(c, replied) ==
    /\ c \in chatPending
    /\ chatPending' = chatPending \ { c }
    /\ isChatLoading' = FALSE
    /\ IF replied
         THEN /\ chatHistory' = Append(c.updatedChatHistory,
                                       [role |-> "model", text |-> << "r" >>])
              /\ UNCHANGED error
         ELSE /\ error' = Some(<< "chat", "failed" >>)
              /\ chatHistory' = c.updatedChatHistory
    /\ UNCHANGED << histVars, prompt, isLoading, hotspotVars, activeTab,
                    cropVars, pending, nextFile, urlVars >>

\* A click on the image element of geometry g at pointer offset p.  Outside
\* the retouch tab it only opens the preview (or does nothing, in crop mode),
\* which is no part of the session state.
handleImageClick(g, p) ==
    IF activeTab = "retouch"
    THEN /\ editHotspot' = Some([ x |-> naturalCoordinate(p.x, g.nw, g.rw),
                                  y |-> naturalCoordinate(p.y, g.nh, g.rh) ])
         /\ displayHotspot' = Some([ x |-> p.x, y |-> p.y ])
         /\ error' = None
         /\ UNCHANGED << histVars, prompt, isLoading, activeTab, cropVars,
                         chatVars, pending, nextFile, urlVars >>
    ELSE UNCHANGED vars

\* Variant: the source rectangle is scaled by the pixel ratio as well.
canvas_sourceTimesRatio(image, c, ratio) ==
    [ width |-> (c.width * ratio) \div 100,
      height |-> (c.height * ratio) \div 100,
      transform |-> ratio,
      sx |-> Rat(c.x * image.nw * ratio, image.rw * 100),
      sy |-> Rat(c.y * image.nh * ratio, image.rh * 100),
      sw |-> Rat(c.width * image.nw * ratio, image.rw * 100),
      sh |-> Rat(c.height * image.nh * ratio, image.rh * 100),
      dx |-> 0, dy |-> 0, dw |-> c.width, dh |-> c.height ]

\* The canvas getCroppedImg has drawn on when it returns: its size in
\* pixels (an integer, the fraction dropped), its transform, and the
\* arguments of the one drawImage call.  The source rectangle is the crop
\* times scaleX = naturalWidth / width and scaleY = naturalHeight / height,
\* given as exact fractions; the doubles the program computes are within
\* one unit in the last place of them.
canvas(image, c, ratio) ==
    [ width |-> (c.width * ratio) \div 100,
      height |-> (c.height * ratio) \div 100,
      transform |-> ratio,
      sx |-> Rat(c.x * image.nw, image.rw),
      sy |-> Rat(c.y * image.nh, image.rh),
      sw |-> Rat(c.width * image.nw, image.rw),
      sh |-> Rat(c.height * image.nh, image.rh),
      dx |-> 0, dy |-> 0, dw |-> c.width, dh |-> c.height ]

\* Variant: toDataURL returns a PNG for every canvas.
getCroppedImg_neverEmpty(image, c, devicePixelRatio) == PngDataURL

\* window.devicePixelRatio || 1, in hundredths.
pixelRatio(devicePixelRatio) ==
    IF devicePixelRatio = 0 THEN 100 ELSE devicePixelRatio

\* getCroppedImg returns canvas.toDataURL('image/png'): a canvas without
\* pixels yields "data:,".
getCroppedImg(image, c, devicePixelRatio) ==
    LET drawn == canvas(image, c, pixelRatio(devicePixelRatio))
    IN  IF drawn.width = 0 \/ drawn.height = 0
        THEN EmptyCanvasDataURL
        ELSE PngDataURL

\* handleCrop has no await: it runs to its end in one step.  imgRef.current is
\* the image element, which exists while a current image is shown; image is
\* its natural and rendered size.
handleCrop(image, devicePixelRatio) ==
    IF completedCrop = None \/ currentImage = None
    THEN reject("crop", "no region")
    ELSE IF dataURLtoFileThrows(
                getCroppedImg(image, completedCrop[1], devicePixelRatio))
    THEN reject("crop", "failed")
    ELSE /\ addImageToHistory(history, historyIndex, nextFile)
         /\ nextFile' = nextFile + 1
         /\ UNCHANGED << prompt, isLoading, error, hotspotVars, activeTab,
                         chatVars, pending, urlVars >>

\* onChange followed by onComplete of ReactCrop at the end of a drag.
setCompletedCrop(c) ==
    /\ crop' = Some(c)
    /\ completedCrop' = Some(c)
    /\ UNCHANGED << histVars, prompt, isLoading, error, hotspotVars, activeTab,
                    chatVars, pending, nextFile, urlVars >>

\* Variant: leaving a tab drops the hotspot.
setActiveTab_clearsHotspot(id) ==
    /\ activeTab' = id
    /\ editHotspot' = None
    /\ displayHotspot' = None
    /\ UNCHANGED << histVars, prompt, isLoading, error, cropVars, chatVars,
                    pending, nextFile, urlVars >>

setActiveTab(id) ==
    /\ activeTab' = id
    /\ UNCHANGED << histVars, prompt, isLoading, error, hotspotVars, cropVars,
                    chatVars, pending, nextFile, urlVars >>

setPrompt(value) ==
    /\ prompt' = value
    /\ UNCHANGED << histVars, isLoading, error, hotspotVars, activeTab,
                    cropVars, chatVars, pending, nextFile, urlVars >>

\* ------------------------------------------------------ object-URL effects

\* An object URL is its number in the order of creation.  objectURLs[u] is
\* the File the URL u was created for, the effect that created it, and how
\* many times it was revoked; a URL is live until it is revoked.
createObjectURL(urls, file, slot) ==
    Append(urls, [ file |-> file, slot |-> slot, revocations |-> 0 ])

revokeObjectURL(urls, url) ==
    [ urls EXCEPT ![url].revocations = @ + 1 ]

\* The dependency of each effect.
slotImage(slot) == IF slot = "current" THEN currentImage ELSE originalImage

\* An effect is due after a commit in which its dependency is another File
\* object, or none, than in its last run.
effectsDue == \E slot \in Slots : effects[slot].dep # slotImage(slot)

\* Variant: the effect returns no cleanup function.
runEffect_noCleanup(slot, urls) ==
    LET last == effects[slot]
        image == slotImage(slot)
    IN  IF last.dep = image THEN [ urls |-> urls, effect |-> last ]
        ELSE IF image # None
        THEN [ urls |-> createObjectURL(urls, image[1], slot),
               effect |-> [ dep |-> image, url |-> Some(Len(urls) + 1),
                            queued |-> TRUE ] ]
        ELSE [ urls |-> urls,
               effect |-> [ dep |-> None, url |-> None, queued |-> TRUE ] ]

\* One effect, run on the URLs urls if its dependency changed: the cleanup
\* of its last run revokes the URL that run created; then a URL is created
\* for the image and handed to setCurrentImageUrl or setOriginalImageUrl,
\* or null is when there is no image.  The state update is queued for the
\* next render.
runEffect(slot, urls) ==
    LET last == effects[slot]
        image == slotImage(slot)
        cleaned == IF last.url # None
                   THEN revokeObjectURL(urls, last.url[1])
                   ELSE urls
    IN  IF last.dep = image THEN [ urls |-> urls, effect |-> last ]
        ELSE IF image # None
        THEN [ urls |-> createObjectURL(cleaned, image[1], slot),
               effect |-> [ dep |-> image, url |-> Some(Len(cleaned) + 1),
                            queued |-> TRUE ] ]
        ELSE [ urls |-> cleaned,
               effect |-> [ dep |-> None, url |-> None, queued |-> TRUE ] ]

\* React runs the effects of a commit, in the order of their declaration.
FlushEffects ==
    /\ mounted /\ effectsDue
    /\ LET first == runEffect("current", objectURLs)
           second == runEffect("original", first.urls)
       IN  /\ objectURLs' = second.urls
           /\ effects' = [ slot \in Slots |->
                             IF slot = "current" THEN first.effect
                                                 ELSE second.effect ]
    /\ UNCHANGED << sessionVars, currentImageUrl, originalImageUrl, mounted >>

\* The render that the state updates of the effects cause: the rendered
\* frame gets the URLs the effects have set.
Rerender ==
    /\ mounted /\ \E slot \in Slots : effects[slot].queued
    /\ currentImageUrl' = IF effects["current"].queued
                            THEN effects["current"].url
                            ELSE currentImageUrl
    /\ originalImageUrl' = IF effects["original"].queued
                             THEN effects["original"].url
                             ELSE originalImageUrl
    /\ effects' = [ slot \in Slots |-> [ effects[slot] EXCEPT !.queued = FALSE ] ]
    /\ UNCHANGED << sessionVars, objectURLs, mounted >>

\* The component is unmounted: the cleanup of the last run of each effect
\* is called.
Unmount ==
    /\ mounted
    /\ mounted' = FALSE
    /\ LET current == effects["current"].url
           original == effects["original"].url
           first == IF current # None
                    THEN revokeObjectURL(objectURLs, current[1])
                    ELSE objectURLs
       IN  objectURLs' = IF original # None
                          THEN revokeObjectURL(first, original[1])
                          ELSE first
    /\ effects' = [ slot \in Slots |->
                      [ effects[slot] EXCEPT !.url = None, !.queued = FALSE ] ]
    /\ UNCHANGED << sessionVars, currentImageUrl, originalImageUrl >>

\* ----------------------------------------------------- rendered controls

\* mainContent shows the editor while there is a current image and the start
\* screen, with the only upload control, otherwise.
editorShown == currentImage # None
startScreenShown == currentImage = None

undoDisabled == ~canUndo \/ isLoading
redoDisabled == ~canRedo \/ isLoading
tabDisabled == isLoading
\* Variant: the Generate button is not disabled while loading.
generateDisabled_notWhileLoading == Trim(prompt) = << >> \/ editHotspot = None
generateDisabled == isLoading \/ Trim(prompt) = << >> \/ editHotspot = None
promptDisabled == isLoading

\* While loading, an overlay covers the image viewer and takes its clicks.
viewerCovered == isLoading

\* FreestylePanel: the button's disabled attribute and handleApply's test.
freestyleDisabled(p) == isLoading \/ Trim(p) = << >>

\* FilterPanel, AdjustmentPanel and BackgroundPanel get the same isLoading
\* flag; they refuse a submit while loading or without instruction text.
panelDisabled(p) == isLoading \/ Trim(p) = << >>

\* CropPanel gets isLoading and isCropping = !!completedCrop.
cropDisabled == isLoading \/ completedCrop = None

\* ChatPanel.handleSubmit.
chatDisabled(m) == Trim(m) = << >> \/ isChatLoading

\* ------------------------------------- Spec: driven through the controls

Upload == startScreenShown /\ nextFile <= MaxFiles /\ handleImageUpload

Undo == editorShown /\ ~undoDisabled /\ handleUndo

Redo == editorShown /\ ~redoDisabled /\ handleRedo

SelectTab == editorShown /\ ~tabDisabled /\ \E id \in Tabs : setActiveTab(id)

TypePrompt ==
    /\ editorShown /\ activeTab = "retouch" /\ ~promptDisabled
    /\ \E value \in Prompts : setPrompt(value)

ClickImage ==
    /\ editorShown /\ ~viewerCovered
    /\ \E g \in Geometries, p \in Pointers : handleImageClick(g, p)

Generate ==
    editorShown /\ activeTab = "retouch" /\ ~generateDisabled /\ handleGenerate

ApplyFreestyle ==
    /\ editorShown /\ activeTab = "freestyle"
    /\ \E p \in Prompts : ~freestyleDisabled(p) /\ handleApplyFreestyle(p)

ApplyBackground ==
    /\ editorShown /\ activeTab = "background"
    /\ \E p \in Prompts : ~panelDisabled(p) /\ handleApplyBackground(p)

ApplyAdjustment ==
    /\ editorShown /\ activeTab = "adjust"
    /\ \E p \in Prompts : ~panelDisabled(p) /\ handleApplyAdjustment(p)

ApplyFilter ==
    /\ editorShown /\ activeTab = "filters"
    /\ \E p \in Prompts : ~panelDisabled(p) /\ handleApplyFilter(p)

DragCrop ==
    /\ editorShown /\ activeTab = "crop" /\ ~viewerCovered
    /\ \E c \in CropRegions : setCompletedCrop(c)

ApplyCrop ==
    /\ editorShown /\ activeTab = "crop" /\ ~cropDisabled
    /\ nextFile <= MaxFiles
    /\ \E image \in Geometries, devicePixelRatio \in PixelRatios :
          handleCrop(image, devicePixelRatio)

SendMessage ==
    /\ editorShown /\ activeTab = "chat"
    /\ Len(chatHistory) < MaxTranscript
    /\ \E m \in Messages : ~chatDisabled(m) /\ handleSendMessage(m)

\* The collaborator answers an image request.
Respond ==
    \E r \in pending, outcome \in Outcomes :
        /\ resolves(outcome) => nextFile <= MaxFiles
        /\ resume(r, outcome)

\* The collaborator answers a chat request.
RespondChat == \E c \in chatPending, replied \in BOOLEAN : resumeChat(c, replied)

Next ==
    \/ Upload
    \/ Undo
    \/ Redo
    \/ SelectTab
    \/ TypePrompt
    \/ ClickImage
    \/ Generate
    \/ ApplyFreestyle
    \/ ApplyBackground
    \/ ApplyAdjustment
    \/ ApplyFilter
    \/ DragCrop
    \/ ApplyCrop
    \/ SendMessage
    \/ Respond
    \/ RespondChat

Spec == Init /\ [][Next]_vars

\* The collaborator answers every request: generateEditedImage and the
\* other calls return a promise that settles, and the handler awaiting it
\* is resumed.
SpecAnswered == Spec /\ WF_vars(Respond)

\* ------------------------------- SpecHandlers: handlers called directly

\* The handlers of the history and of the image operations, called in any
\* state.  Of the four handlers that take an instruction, which differ only
\* in their messages, handleApplyFilter stands for all.

CallUpload == nextFile <= MaxFilesDirect /\ handleImageUpload

CallUndo == handleUndo

CallRedo == (canRedo => historyIndex > -1 - MaxUnderflow) /\ handleRedo

CallSetPrompt == \E value \in Prompts : setPrompt(value)

\* The image element exists only while the editor is shown.
CallImageClick ==
    editorShown /\ \E g \in Geometries, p \in Pointers : handleImageClick(g, p)

CallGenerate == Cardinality(pending) < MaxPending /\ handleGenerate

CallApplyFilter ==
    /\ Cardinality(pending) < MaxPending
    /\ \E p \in Prompts : handleApplyFilter(p)

RespondDirect ==
    \E r \in pending, outcome \in Outcomes :
        /\ resolves(outcome) => nextFile <= MaxFilesDirect
        /\ resume(r, outcome)

NextHandlers ==
    \/ CallUpload
    \/ CallUndo
    \/ CallRedo
    \/ CallSetPrompt
    \/ CallImageClick
    \/ CallGenerate
    \/ CallApplyFilter
    \/ RespondDirect

SpecHandlers == Init /\ [][NextHandlers]_vars

\* --------------------- SpecRace: uploads while image requests are awaited

\* handleImageUpload called while requests of handleGenerate and
\* handleApplyFilter are awaited, and the requests answered after it: every
\* File of the bound may be an upload, and one more the result of a request.

RaceUpload == nextFile <= MaxFilesDirect /\ handleImageUpload

RaceSetPrompt == \E value \in Prompts : setPrompt(value)

RaceImageClick ==
    editorShown /\ \E g \in Geometries, p \in Pointers : handleImageClick(g, p)

RaceGenerate == Cardinality(pending) < MaxPending /\ handleGenerate

RaceApplyFilter ==
    /\ Cardinality(pending) < MaxPending
    /\ \E p \in Prompts : handleApplyFilter(p)

RaceRespond ==
    \E r \in pending, outcome \in Outcomes :
        /\ resolves(outcome) => nextFile <= MaxFilesDirect + 1
        /\ resume(r, outcome)

NextRace ==
    \/ RaceUpload
    \/ RaceSetPrompt
    \/ RaceImageClick
    \/ RaceGenerate
    \/ RaceApplyFilter
    \/ RaceRespond

SpecRace == Init /\ [][NextRace]_vars

\* ------------------------------ SpecCrop: the crop handler called directly

\* handleCrop called in any state, with or without a completed crop, on
\* image elements of several sizes; uploads, undo and redo move the cursor
\* it appends at.

CropUpload == nextFile <= MaxFilesDirect /\ handleImageUpload

CropUndo == handleUndo

CropRedo == (canRedo => historyIndex > -1 - MaxUnderflow) /\ handleRedo

\* ReactCrop is rendered around the image element.
CallSetCompletedCrop ==
    /\ editorShown
    /\ \E image \in CropGeometries : \E c \in CropRegionsOf(image) :
          setCompletedCrop(c)

\* The element the crop is taken from need not be the one the completed crop
\* was dragged on: undo and redo show another version, of another size, and
\* leave completedCrop as it is.
CallCrop ==
    /\ nextFile <= MaxFilesDirect + 1
    /\ \E image \in CropGeometries, devicePixelRatio \in PixelRatios :
          handleCrop(image, devicePixelRatio)

NextCrop ==
    \/ CropUpload
    \/ CropUndo
    \/ CropRedo
    \/ CallSetCompletedCrop
    \/ CallCrop

SpecCrop == Init /\ [][NextCrop]_vars

\* -------------------------- SpecClick: clicks on image elements of any size

\* One image is loaded and the image element is clicked once, at every
\* offset of ClickPointers, for every natural and rendered size of
\* ClickGeometries.  What a click stores does not depend on the hotspot
\* stored before it, so a second click adds no case.

ClickUpload == history = << >> /\ handleImageUpload

ClickAnywhere ==
    /\ editorShown /\ editHotspot = None
    /\ \E g \in ClickGeometries : \E p \in ClickPointers(g) :
          handleImageClick(g, p)

NextClick ==
    \/ ClickUpload
    \/ ClickAnywhere

SpecClick == Init /\ [][NextClick]_vars

\* ------------- SpecRetouch: the retouch tab, with clicks that tell versions

\* The retouch and the freestyle tab of the application, driven through the
\* rendered controls as in Spec.  Every click on the image lands on the
\* pixel whose offsets are the number of the version shown, so that the
\* hotspot tells which version was clicked on.

VersionPointer(file) == [ x |-> file, y |-> file ]

ClickVersion ==
    /\ editorShown /\ ~viewerCovered
    /\ \E g \in Geometries : handleImageClick(g, VersionPointer(currentImage[1]))

RetouchSelectTab ==
    /\ editorShown /\ ~tabDisabled
    /\ \E id \in { "retouch", "freestyle" } : setActiveTab(id)

NextRetouch ==
    \/ Upload
    \/ Undo
    \/ Redo
    \/ RetouchSelectTab
    \/ TypePrompt
    \/ ClickVersion
    \/ Generate
    \/ ApplyFreestyle
    \/ Respond

SpecRetouch == Init /\ [][NextRetouch]_vars

\* ------------------------------- SpecUrls: the object URLs of the images

\* Uploads, undo, redo and crops change the current and the original image;
\* the effects run after each commit, before the next one, and the render
\* they cause comes at any time after them.  The image element, and with it
\* the crop, exists while the frame has a current image and its URL.

imageShown == editorShown /\ currentImageUrl # None

UrlUpload == mounted /\ ~effectsDue /\ Upload

UrlUndo == mounted /\ ~effectsDue /\ Undo

UrlRedo == mounted /\ ~effectsDue /\ Redo

UrlDragCrop ==
    /\ mounted /\ ~effectsDue /\ imageShown
    /\ \E c \in CropRegions : setCompletedCrop(c)

UrlCrop ==
    /\ mounted /\ ~effectsDue /\ imageShown
    /\ nextFile <= MaxFiles
    /\ \E image \in Geometries, devicePixelRatio \in PixelRatios :
          handleCrop(image, devicePixelRatio)

NextUrls ==
    \/ UrlUpload
    \/ UrlUndo
    \/ UrlRedo
    \/ UrlDragCrop
    \/ UrlCrop
    \/ FlushEffects
    \/ Rerender
    \/ Unmount

SpecUrls == Init /\ [][NextUrls]_vars

\* ----------------------------------------------------------------- claims

\* An image handler's continuation ran its try block to the end, or handleCrop
\* did: a new File was appended.
Appended == (Respond \/ ApplyCrop) /\ nextFile' = nextFile + 1

\* C1: whenever the history is non-empty the cursor lies in 0 .. length-1,
\* and the history is empty, with the cursor at -1, only before the first
\* upload.
C1_CursorInRange ==
    /\ Len(history) > 0 => 0 <= historyIndex /\ historyIndex < Len(history)
    /\ Len(history) = 0 => historyIndex = -1 /\ nextFile = 1

\* C2: redo advances the cursor by exactly one when it is before the tail,
\* and never changes the sequence; at the tail it changes nothing.
C2_RedoAdvances ==
    [][ handleRedo =>
          /\ history' = history
          /\ historyIndex' = IF historyIndex < Len(history) - 1
                               THEN historyIndex + 1
                               ELSE historyIndex ]_vars

\* C3: undo decrements the cursor by exactly one when it is above 0, and
\* never changes the sequence; at cursor 0, or with an empty history, it
\* changes neither.
C3_UndoDecrements ==
    [][ CallUndo =>
          /\ history' = history
          /\ historyIndex' = IF historyIndex > 0
                               THEN historyIndex - 1
                               ELSE historyIndex ]_vars

\* C3 witness: an undo has moved the cursor off the tail of a two-version
\* history.
C3_Witness == Len(history) = 2 /\ historyIndex = 0

\* C4: from every cursor with 0 < cursor <= length-1, undo followed by redo
\* ends on the same cursor and the same current version.
C4_UndoThenRedoReturns ==
    (0 < historyIndex /\ historyIndex <= Len(history) - 1) =>
        LET back == redoIndex(undoIndex(historyIndex), Len(history))
        IN  back = historyIndex /\ At(history, back) = currentImage

\* C5: an append with the cursor at c leaves exactly the old elements 0..c
\* followed by the new version, and the cursor on it, at c + 1 = length - 1.
C5_AppendLaw ==
    [][ Appended =>
          /\ history' = Append(SubSeq(history, 1, historyIndex + 1), nextFile)
          /\ historyIndex' = historyIndex + 1
          /\ historyIndex' = Len(history') - 1 ]_vars

\* C5 witness: [A, B, C] at cursor 2, undone to cursor 1, then appended to:
\* [A, B, D] at cursor 2, C discarded.
C5_Witness == history = << 1, 2, 4 >> /\ historyIndex = 2

\* C6: a submit issued while another image operation is pending is rejected
\* with an error, issues no request and leaves history and cursor alone; and
\* a success then appends exactly one version to the history.
C6_SecondSubmitRejected ==
    [][ /\ ((CallGenerate \/ CallApplyFilter) /\ pending # {}) =>
              /\ error' # None
              /\ pending' = pending
              /\ history' = history
              /\ historyIndex' = historyIndex
        /\ (RespondDirect /\ nextFile' = nextFile + 1) =>
              history' = Append(Slice(history, 0, historyIndex + 1), nextFile)
      ]_vars

C8_FailureKeepsHistory ==
    [][ \A r \in pending, outcome \in Outcomes :
          ((outcome = Rejected \/ dataURLtoFileThrows(outcome))
              /\ resume(r, outcome)) =>
                /\ history' = r.history /\ history' = history
                /\ historyIndex' = r.historyIndex /\ historyIndex' = historyIndex
                /\ editHotspot' = editHotspot
                /\ displayHotspot' = displayHotspot
                /\ r.kind = "retouch" => editHotspot' = r.hotspot
                /\ error' # None
                /\ error'[1][1] = r.kind
                /\ isLoading' = FALSE
                /\ pending' = {} ]_vars

\* C8 witness: a background change has failed on a history of two versions,
\* with a hotspot set.
C8_Witness ==
    /\ error = Some(<< "background", "failed" >>)
    /\ ~isLoading
    /\ Len(history) = 2 /\ historyIndex = 1
    /\ editHotspot # None

\* The hotspot h is the natural-pixel image of the rendered-pixel hotspot d.
NaturalOf(h, d) ==
    \E g \in Geometries :
        h = [ x |-> Round(d.x * g.nw, g.rw), y |-> Round(d.y * g.nh, g.rh) ]

\* C9: a retouch submitted with a hotspot and an instruction issues exactly
\* one request, carrying the current version, the instruction and the hotspot
\* in natural pixels; its success leaves the history it was submitted on
\* with the result appended, the cursor on the result, no hotspot and no
\* operation in flight: [A] at cursor 0 becomes [A, B] at cursor 1.
C9_RetouchSuccess ==
    [][ /\ Generate =>
              \E r \in pending' :
                 /\ pending' = pending \cup { r } /\ r \notin pending
                 /\ r.kind = "retouch"
                 /\ Some(r.image) = currentImage
                 /\ r.instruction = prompt /\ Trim(r.instruction) # << >>
                 /\ r.hotspot # None
                 /\ NaturalOf(r.hotspot[1], displayHotspot[1])
        /\ \A r \in pending :
              (r.kind = "retouch" /\ resume(r, PngDataURL)) =>
                 /\ history' = Append(SubSeq(history, 1, historyIndex + 1), nextFile)
                 /\ history = << r.image >> => history' = << r.image, nextFile >>
                 /\ historyIndex' = historyIndex + 1
                 /\ editHotspot' = None /\ displayHotspot' = None
                 /\ isLoading' = FALSE /\ pending' = {}
      ]_vars

\* C9 witness: a retouch of [A] at cursor 0 is in flight with the natural
\* hotspot (50, 100) of the click at (25, 50).
C9_Witness ==
    \E r \in pending :
        /\ r.kind = "retouch" /\ r.history = << 1 >> /\ r.historyIndex = 0
        /\ r.hotspot = Some([ x |-> 50, y |-> 100 ])

\* C10: handleGenerate called with no current image, with an instruction
\* that is empty after trimming, or with no hotspot records an error and
\* changes nothing else: no request is issued, the loading flag, history,
\* cursor and hotspot stay as they are.
C10_RetouchValidation ==
    [][ (CallGenerate /\ (currentImage = None \/ Trim(prompt) = << >>
                            \/ editHotspot = None)) =>
          /\ error' # None /\ error'[1][1] = "retouch"
          /\ error'[1][2] \in {"no image", "no instruction", "no hotspot"}
          /\ UNCHANGED << pending, isLoading, history, historyIndex,
                          editHotspot, displayHotspot, prompt, nextFile >>
      ]_vars

\* C10 witness: a retouch with a whitespace-only instruction was refused
\* while an image was loaded and idle.
C10_Witness ==
    /\ error = Some(<< "retouch", "no instruction" >>)
    /\ prompt = << " " >>
    /\ currentImage # None /\ pending = {} /\ ~isLoading

\* C10, the other two cases: refused for want of an image, and for want of a
\* hotspot.
C10_NoImageReached == error = Some(<< "retouch", "no image" >>)
C10_NoHotspotReached ==
    error = Some(<< "retouch", "no hotspot" >>) /\ Trim(prompt) # << >>

\* C11: a filter, adjustment, background or freestyle handler called with
\* an instruction that is empty after trimming issues no request, does not
\* set the loading flag, and records an error.
C11_EmptyInstructionRejected ==
    [][ \A p \in Prompts :
          (/\ Trim(p) = << >>
           /\ Cardinality(pending) < MaxPending
           /\ handleApplyFilter(p)) =>
              /\ pending' = pending
              /\ isLoading' = isLoading
              /\ error' # None
      ]_vars

\* C12: handleCrop called with no completed crop, or with one whose width
\* or height is 0, appends nothing to the history and leaves the cursor
\* where it is; so a crop that is appended had a region of positive width
\* and height.
C12_CropNeedsRegion ==
    [][ \A image \in CropGeometries, devicePixelRatio \in PixelRatios :
          (/\ handleCrop(image, devicePixelRatio)
           /\ \/ completedCrop = None
              \/ completedCrop[1].width = 0
              \/ completedCrop[1].height = 0) =>
              /\ history' = history
              /\ historyIndex' = historyIndex
              /\ nextFile' = nextFile
      ]_vars

\* C12 witness: a crop of width 0 was submitted on a loaded image and
\* refused; the history still holds the upload alone.
C12_Witness ==
    /\ error = Some(<< "crop", "failed" >>)
    /\ completedCrop # None /\ completedCrop[1].width = 0
    /\ history = << 1 >> /\ historyIndex = 0

\* C12, the other case: a crop was submitted with no completed region.
C12_NoRegionReached ==
    /\ error = Some(<< "crop", "no region" >>)
    /\ completedCrop = None /\ currentImage # None

C15_HotspotFrame ==
    [][ /\ hotspotVars' # hotspotVars =>
              \/ /\ ClickImage /\ activeTab = "retouch"
                 /\ editHotspot' # None /\ displayHotspot' # None
              \/ /\ \E r \in pending : r.kind = "retouch" /\ resume(r, PngDataURL)
                 /\ editHotspot' = None /\ displayHotspot' = None
              \/ /\ Upload
                 /\ editHotspot' = None /\ displayHotspot' = None
        /\ (SelectTab \/ Undo \/ Redo \/ DragCrop \/ ApplyCrop \/ SendMessage
              \/ RespondChat) => UNCHANGED hotspotVars
        /\ \A r \in pending, outcome \in Outcomes :
              (resume(r, outcome) /\ (~resolves(outcome) \/ r.kind # "retouch"))
                 => UNCHANGED hotspotVars
      ]_vars

\* C15 witness: a hotspot set by a click is still there after a tab switch,
\* a successful freestyle, filter, adjustment or background edit, an undo
\* and a chat message.
C15_Witness ==
    /\ editHotspot = Some([ x |-> 50, y |-> 100 ])
    /\ displayHotspot = Some([ x |-> 25, y |-> 50 ])
    /\ activeTab = "chat" /\ chatHistory # << >>
    /\ history = << 1, 2 >> /\ historyIndex = 0

\* The natural length n is what a click at the offset client stores on the
\* side, of positive rendered length.
StoredOn(n, client, side) ==
    /\ side.rendered > 0
    /\ client \in Offsets(side.rendered)
    /\ n = naturalCoordinate(client, side.natural, side.rendered)

\* C16: a click in retouch mode on an element of positive rendered width
\* and height stores the natural hotspot (round(px * nw / rw),
\* round(py * nh / rh)) and the display hotspot (px, py).  (A click stores
\* its pointer offset as the display hotspot, so a step is a click at no
\* other offset than that, and on no other sides than those the stored
\* natural hotspot comes from.)
C16_ClickMapsPointer ==
    [][ (activeTab = "retouch" /\ displayHotspot' # None) =>
          LET p == displayHotspot'[1]
              widths == { a \in AllSides : StoredOn(editHotspot'[1].x, p.x, a) }
              heights == { b \in AllSides : StoredOn(editHotspot'[1].y, p.y, b) }
          IN  \A a \in widths, b \in heights :
                 handleImageClick(Element(a, b), p) =>
                    /\ editHotspot' =
                          Some([ x |-> Round(p.x * a.natural, a.rendered),
                                 y |-> Round(p.y * b.natural, b.rendered) ])
                    /\ displayHotspot' = Some([ x |-> p.x, y |-> p.y ])
      ]_vars

\* C16, the example of the claim: the click at (25, 50) on the 100x200
\* image shown at 50x100 has stored (50, 100).
C16_ExampleReached ==
    /\ editHotspot = Some([ x |-> 50, y |-> 100 ])
    /\ displayHotspot = Some([ x |-> 25, y |-> 50 ])
    /\ history = << 1 >> /\ pending = {} /\ activeTab = "retouch"
    /\ prompt = << >>

\* C17: a click in retouch mode on an element whose rendered width or
\* height is 0 records an error and leaves the hotspot as it was.
C17_ZeroSizeClickFails ==
    [][ \A g \in ClickGeometries : \A p \in ClickPointers(g) :
          (/\ g.rw = 0 \/ g.rh = 0
           /\ activeTab = "retouch"
           /\ handleImageClick(g, p)) =>
              /\ error' # None
              /\ editHotspot' = editHotspot
              /\ displayHotspot' = displayHotspot
      ]_vars

\* C18: the natural hotspot a click in retouch mode stores on an element of
\* positive rendered size lies in 0..nw-1 by 0..nh-1, for every pointer
\* offset from 0 to the rendered width and height.
C18_HotspotInsideImage ==
    [][ \A g \in ClickGeometries : \A p \in ClickPointers(g) :
          (/\ g.rw > 0 /\ g.rh > 0
           /\ activeTab = "retouch"
           /\ handleImageClick(g, p)) =>
              /\ editHotspot'[1].x \in 0..(g.nw - 1)
              /\ editHotspot'[1].y \in 0..(g.nh - 1)
      ]_vars

\* The natural length n, taken back to rendered pixels with the inverse
\* scale rendered / natural, is within one pixel of the offset client:
\* |n * rendered / natural - client| <= 1.
WithinOnePixel(n, client, natural, rendered) ==
    /\ n * rendered - client * natural <= natural
    /\ client * natural - n * rendered <= natural

\* C19: for every element of positive rendered size, natural sizes below
\* the rendered ones included, the natural hotspot a click stores maps back
\* to within one rendered pixel of the pointer offset on each axis.
C19_RoundTripWithinOne ==
    [][ \A g \in ClickGeometries : \A p \in ClickPointers(g) :
          (/\ g.rw > 0 /\ g.rh > 0
           /\ activeTab = "retouch"
           /\ handleImageClick(g, p)) =>
              /\ WithinOnePixel(editHotspot'[1].x, p.x, g.nw, g.rw)
              /\ WithinOnePixel(editHotspot'[1].y, p.y, g.nh, g.rh)
      ]_vars

\* C19 amended: the same, on each axis whose rendered length is at most
\* twice its natural length.  (A click stores its pointer offset as the
\* display hotspot, so a step is a click at no other offset than that, and
\* on no other sides than those the stored natural hotspot comes from.)
C19_RoundTripWithinOneUpToTwice ==
    [][ (activeTab = "retouch" /\ displayHotspot' # None) =>
          LET p == displayHotspot'[1]
              widths == { a \in AllSides : StoredOn(editHotspot'[1].x, p.x, a) }
              heights == { b \in AllSides : StoredOn(editHotspot'[1].y, p.y, b) }
          IN  \A a \in widths, b \in heights :
                 handleImageClick(Element(a, b), p) =>
                    /\ a.rendered <= 2 * a.natural =>
                          WithinOnePixel(editHotspot'[1].x, p.x,
                                         a.natural, a.rendered)
                    /\ b.rendered <= 2 * b.natural =>
                          WithinOnePixel(editHotspot'[1].y, p.y,
                                         b.natural, b.rendered)
      ]_vars

\* C19 witness: a click at (3, 50) on an element whose width is enlarged
\* from 3 to 4 pixels and whose height is reduced from 200 to 100 has
\* stored the natural hotspot (2, 100).
C19_Witness ==
    /\ editHotspot = Some([ x |-> 2, y |-> 100 ])
    /\ displayHotspot = Some([ x |-> 3, y |-> 50 ])

\* The source rectangle of the drawImage call.
SourceRectangle(drawn) == << drawn.sx, drawn.sy, drawn.sw, drawn.sh >>

C21_BufferAtNaturalResolution ==
    [][ \A image \in CropGeometries, devicePixelRatio \in PixelRatios :
          (/\ completedCrop # None
           /\ completedCrop[1] \in CropRegionsOf(image)
           /\ handleCrop(image, devicePixelRatio)
           /\ nextFile' = nextFile + 1) =>
             LET c == completedCrop[1]
                 ratio == pixelRatio(devicePixelRatio)
                 drawn == canvas(image, c, ratio)
             IN  /\ drawn.width =
                       (c.width * image.nw * ratio) \div (image.rw * 100)
                 /\ drawn.height =
                       (c.height * image.nh * ratio) \div (image.rh * 100)
      ]_vars

\* The source rectangle of the crop c, taken from the element image, extends
\* beyond the right or the lower edge of the image.
OutsideSource(image, c) ==
    \/ (c.x + c.width) * image.nw > image.rw * image.nw
    \/ (c.y + c.height) * image.nh > image.rh * image.nh

\* C22: handleCrop called with a completed crop whose source rectangle
\* extends outside the image records an error and appends nothing.
C22_OutOfBoundsCropFails ==
    [][ \A image \in CropGeometries, devicePixelRatio \in PixelRatios :
          (/\ completedCrop # None
           /\ OutsideSource(image, completedCrop[1])
           /\ handleCrop(image, devicePixelRatio)) =>
              /\ error' # None
              /\ history' = history
              /\ historyIndex' = historyIndex
      ]_vars

\* C23: a message is sent with the transcript of that moment followed by
\* the message; when the exchange fails the transcript is that, with no
\* reply, the chat flag is cleared, an error is recorded and history and
\* cursor are unchanged; when it succeeds the transcript is that followed
\* by the model's reply.
C23_ChatFailureKeepsMessage ==
    [][ /\ SendMessage =>
              \E c \in chatPending' :
                 /\ chatPending' = chatPending \cup { c } /\ c \notin chatPending
                 /\ c.updatedChatHistory =
                       Append(chatHistory, [role |-> "user", text |-> c.message])
                 /\ chatHistory' = c.updatedChatHistory
        /\ \A c \in chatPending :
              resumeChat(c, FALSE) =>
                 /\ chatHistory' = c.updatedChatHistory
                 /\ chatHistory'[Len(chatHistory')] =
                       [role |-> "user", text |-> c.message]
                 /\ isChatLoading' = FALSE
                 /\ error' # None
                 /\ history' = history /\ historyIndex' = historyIndex
        /\ \A c \in chatPending :
              resumeChat(c, TRUE) =>
                 /\ Len(chatHistory') = Len(c.updatedChatHistory) + 1
                 /\ SubSeq(chatHistory', 1, Len(c.updatedChatHistory)) =
                       c.updatedChatHistory
                 /\ chatHistory'[Len(chatHistory')].role = "model"
                 /\ isChatLoading' = FALSE
                 /\ history' = history /\ historyIndex' = historyIndex
      ]_vars

\* C23 witness: two exchanges have failed one after the other; both user
\* messages are in the transcript and no reply.
C23_Witness ==
    /\ chatHistory = << [role |-> "user", text |-> << "h" >>],
                        [role |-> "user", text |-> << "h" >>] >>
    /\ error = Some(<< "chat", "failed" >>)
    /\ ~isChatLoading /\ chatPending = {}

\* C25: whatever the collaborator answers to an image request, a rejected
\* promise, a string that does not decode or an image, the handler resumed
\* with it clears the loading flag; and once the collaborator answers, a
\* session that is loading comes to be not loading.
C25_PendingReturnsToIdle ==
    /\ [][ \A r \in pending, outcome \in Outcomes :
             resume(r, outcome) => isLoading' = FALSE /\ r \notin pending' ]_vars
    /\ (isLoading ~> ~isLoading)

\* C25 witness: a request that was answered with a string that is no data
\* URL has left the session idle, with the error of its kind.
C25_Witness ==
    /\ ~isLoading /\ pending = {}
    /\ error = Some(<< "freestyle", "failed" >>)
    /\ Len(history) = 1

\* The request r was dispatched before the upload that made the history what
\* it is: the history is one File, under the cursor, that the history r was
\* dispatched on does not hold (every upload is a new File).
UploadedSince(r) ==
    /\ Len(history) = 1 /\ historyIndex = 0
    /\ \A i \in 1..Len(r.history) : r.history[i] # history[1]

\* C27: when an image request dispatched before an upload is answered after
\* it, the history stays the uploaded file alone, with the cursor on it.
C27_StaleResponseIgnored ==
    [][ \A r \in pending, outcome \in Outcomes :
          (UploadedSince(r) /\ resume(r, outcome)) =>
             /\ history' = history
             /\ historyIndex' = 0
      ]_vars

\* C28: when a chat request sent before an upload is answered, or fails,
\* after it, no message of a user from before the upload is in the
\* transcript.  (A message sent is in the transcript until an upload
\* empties it, so a request in flight over an empty transcript was sent
\* before the upload.)
C28_TranscriptStartsAtUpload ==
    [][ \A c \in chatPending, replied \in BOOLEAN :
          (chatHistory = << >> /\ resumeChat(c, replied)) =>
             \A i \in 1..Len(chatHistory') : chatHistory'[i].role # "user"
      ]_vars

\* C30: while an image operation is in flight the error is none.
C30_NoErrorWhilePending == isLoading => error = None

\* The natural hotspot a click of SpecRetouch on the version file stores.
HotspotOn(file) ==
    { [ x |-> naturalCoordinate(VersionPointer(file).x, g.nw, g.rw),
        y |-> naturalCoordinate(VersionPointer(file).y, g.nh, g.rh) ] :
      g \in Geometries }

\* C29: the hotspot of a retouch request was set by a click on the version
\* the request carries.
C29_HotspotOfSentVersion ==
    [][ Generate =>
          \A r \in pending' \ pending :
              r.kind = "retouch" /\ r.hotspot[1] \in HotspotOn(r.image)
      ]_vars

\* The object URLs that were not revoked, of all and of those the effect of
\* a slot created.
Live == { u \in 1..Len(objectURLs) : objectURLs[u].revocations = 0 }
LiveOf(slot) == { u \in Live : objectURLs[u].slot = slot }

\* The effects have run for the images of the last commit and the frame
\* was rendered with the URLs they set.
Quiescent ==
    /\ mounted /\ ~effectsDue
    /\ \A slot \in Slots : ~effects[slot].queued

\* C24: no object URL is revoked twice; a URL is revoked only when the
\* effect that created it runs again, for another image of its slot, or
\* when the component is unmounted, after which every URL created has been
\* revoked once; and in a quiescent state each slot has at most one live
\* URL, none when it has no image, and that URL was created for the image
\* in the slot and is the one the frame holds.
C24_HandlesPaired ==
    /\ [] /\ \A u \in 1..Len(objectURLs) : objectURLs[u].revocations <= 1
          /\ ~mounted => Live = {}
          /\ Quiescent =>
                \A slot \in Slots :
                   /\ Cardinality(LiveOf(slot)) <= 1
                   /\ slotImage(slot) = None => LiveOf(slot) = {}
                   /\ \A u \in LiveOf(slot) :
                         /\ Some(objectURLs[u].file) = slotImage(slot)
                         /\ Some(u) = IF slot = "current"
                                         THEN currentImageUrl
                                         ELSE originalImageUrl
    /\ [][ \A u \in Live :
             u \notin Live' =>
                \/ ~mounted'
                \/ /\ FlushEffects
                   /\ effects[objectURLs[u].slot].url = Some(u)
                   /\ slotImage(objectURLs[u].slot)
                         # Some(objectURLs[u].file) ]_vars

\* C24 witness: the URL of the first upload was revoked when a crop became
\* the current image, the URL of the crop is live and is the one rendered,
\* and the original image still has the URL created at the upload.
C24_Witness ==
    /\ Quiescent
    /\ history = << 1, 2 >> /\ historyIndex = 1
    /\ Len(objectURLs) = 3
    /\ objectURLs[1] = [ file |-> 1, slot |-> "current", revocations |-> 1 ]
    /\ currentImageUrl = Some(3) /\ originalImageUrl = Some(2)
    /\ Live = { 2, 3 }

\* C24, the other case: the component was unmounted with two URLs live,
\* and both are revoked.
C24_TornDown ==
    /\ ~mounted /\ Len(objectURLs) >= 2
    /\ \A u \in 1..Len(objectURLs) : objectURLs[u].revocations = 1

\* C26: the URL the rendered frame uses for the image element, for the
\* download and for the new tab, and the one it shows while comparing, is
\* live.
C26_RenderedHandleLive ==
    (mounted /\ editorShown) =>
       /\ currentImageUrl # None => currentImageUrl[1] \in Live
       /\ (currentImageUrl # None /\ originalImageUrl # None) =>
             originalImageUrl[1] \in Live

====
